---- MODULE Spec2Model ----
(***************************************************************************)
(* Model of the Resend MCP server (src/index.ts): 28 tools registered on   *)
(* an McpServer.  Each tool has a zod parameter schema and an async        *)
(* handler that builds a request, awaits one call on the Resend client     *)
(* (the Provider Gateway) and renders the response.                        *)
(*                                                                         *)
(* JavaScript values are tagged records; objects are functions from key    *)
(* to value, and a key whose value is undefined is still a key.            *)
(***************************************************************************)
EXTENDS Integers, Sequences, FiniteSets, TLC

(***************************************************************************)
(* JavaScript values                                                       *)
(***************************************************************************)
Undefined == [t |-> "undefined"]
Null == [t |-> "null"]
Str(s) == [t |-> "string", v |-> s]
Num(n) == [t |-> "number", v |-> n]
Bool(b) == [t |-> "boolean", v |-> b]
Arr(q) == [t |-> "array", v |-> q]
Obj(f) == [t |-> "object", v |-> f]

EmptyObj == [k \in {} |-> Undefined]

\* if (x): undefined, null, "" and false are falsy; arrays and objects are truthy.
Truthy(v) ==
  CASE v.t \in {"undefined", "null"} -> FALSE
    [] v.t = "string" -> v.v # ""
    [] v.t = "boolean" -> v.v
    [] OTHER -> TRUE

\* a ?? b
Coalesce(a, b) == IF a.t \in {"undefined", "null"} THEN b ELSE a

\* a || b
OrElse(a, b) == IF Truthy(a) THEN a ELSE b

\* Destructuring / property read: a missing key reads as undefined.
Get(o, k) == IF k \in DOMAIN o THEN o[k] ELSE Undefined

\* x?.k
OptGet(v, k) == IF v.t = "object" THEN Get(v.v, k) ELSE Undefined

\* `${v}` inside a template literal (strings, numbers and undefined only).
Interp(v) ==
  CASE v.t = "string" -> v.v
    [] v.t = "number" -> ToString(v.v)
    [] v.t = "null" -> "null"
    [] OTHER -> "undefined"

(***************************************************************************)
(* JSON.stringify.  Keys are written in KeyOrder; a key whose value is     *)
(* undefined is not written.                                               *)
(***************************************************************************)
KeyOrder == <<"id", "name", "message", "statusCode", "object", "token",
              "record", "value", "data", "records", "email", "contact",
              "deleted">>

RECURSIVE JoinStr(_, _)
JoinStr(parts, sep) ==
  IF Len(parts) = 0 THEN ""
  ELSE IF Len(parts) = 1 THEN parts[1]
  ELSE LET mid == Len(parts) \div 2
       IN JoinStr(SubSeq(parts, 1, mid), sep) \o sep
          \o JoinStr(SubSeq(parts, mid + 1, Len(parts)), sep)

RECURSIVE JSONstringify(_)
JSONstringify(v) ==
  CASE v.t = "string" -> "\"" \o v.v \o "\""
    [] v.t = "number" -> ToString(v.v)
    [] v.t = "boolean" -> IF v.v THEN "true" ELSE "false"
    [] v.t = "array" ->
         "[" \o JoinStr([i \in 1..Len(v.v) |-> JSONstringify(v.v[i])], ",") \o "]"
    [] v.t = "object" ->
         LET keys == SelectSeq(KeyOrder,
                       LAMBDA k : k \in DOMAIN v.v /\ v.v[k].t # "undefined")
         IN "{" \o JoinStr([i \in 1..Len(keys) |->
                    "\"" \o keys[i] \o "\":" \o JSONstringify(v.v[keys[i]])], ",")
                \o "}"
    [] OTHER -> "null"

RECURSIVE Pad(_)
Pad(depth) == IF depth = 0 THEN "" ELSE "  " \o Pad(depth - 1)

\* JSON.stringify(v, null, 2)
RECURSIVE JSONindent(_, _)
JSONindent(v, depth) ==
  CASE v.t = "array" ->
         IF Len(v.v) = 0 THEN "[]"
         ELSE "[\n"
              \o JoinStr([i \in 1..Len(v.v) |->
                            Pad(depth + 1) \o JSONindent(v.v[i], depth + 1)], ",\n")
              \o "\n" \o Pad(depth) \o "]"
    [] v.t = "object" ->
         LET keys == SelectSeq(KeyOrder,
                       LAMBDA k : k \in DOMAIN v.v /\ v.v[k].t # "undefined")
         IN IF Len(keys) = 0 THEN "{}"
            ELSE "{\n"
                 \o JoinStr([i \in 1..Len(keys) |->
                               Pad(depth + 1) \o "\"" \o keys[i] \o "\": "
                               \o JSONindent(v.v[keys[i]], depth + 1)], ",\n")
                 \o "\n" \o Pad(depth) \o "}"
    [] OTHER -> JSONstringify(v)

(***************************************************************************)
(* Process defaults and in-flight invocations                              *)
(***************************************************************************)
VARIABLES
  cmdline,                \* the flags the process was started with
  env,                    \* the environment variables of the process
  phase,                  \* "starting" | "running" | "exited"
  apiKey,                 \* string | undefined, fixed at startup
  exitCode,               \* the exit status, -1 while the process lives
  stderr,                 \* the lines startup wrote to standard error
  registered,             \* the tools registered on the server
  senderEmailAddress,     \* string | undefined, fixed at startup
  replierEmailAddresses,  \* string[], fixed at startup
  pc,                     \* per slot: "idle" | "awaiting" | "done"
  tool,                   \* per slot: the tool invoked
  rawArgs,                \* per slot: the raw arguments of the invocation
  calls,                  \* per slot: the gateway calls issued so far
  response,               \* per slot: the gateway's response, Null before it
  result                  \* per slot: the invocation's result, Null before it

startupVars == <<cmdline, env, phase, apiKey, exitCode, stderr, registered>>

vars == <<cmdline, env, phase, apiKey, exitCode, stderr, registered,
          senderEmailAddress, replierEmailAddresses, pc, tool, rawArgs,
          calls, response, result>>

NumSlots == 2
Slots == 1..NumSlots

(***************************************************************************)
(* zod schemas.  A schema maps each field to its type and whether it is    *)
(* .optional(); parsing rejects a missing required field or an ill-typed   *)
(* value and strips the keys the schema does not name (z.object default).  *)
(***************************************************************************)
Req(type) == [type |-> type, opt |-> FALSE]
Opt(type) == [type |-> type, opt |-> TRUE]

\* Strings zod's .email() accepts, among the strings the model uses.
WellFormedEmails == {"a@x.com", "b@x.com", "s@x.com", "r@x.com",
                     "sender@corp.com", "r1@corp.com", "r2@corp.com"}

\* z.string().email()
IsEmail(s) == s \in WellFormedEmails

\* .max(100) on the emails array of send-batch-emails
MaxBatch == 100

Restrict(o, keys) == [k \in (DOMAIN o) \cap keys |-> o[k]]

\* The leaf types of the schemas.
ValidLeaf(type, v) ==
  CASE type = "string" -> v.t = "string"
    [] type = "email" -> v.t = "string" /\ IsEmail(v.v)
    [] type = "recipients" ->
         \/ v.t = "string" /\ IsEmail(v.v)
         \/ v.t = "array" /\ \A i \in 1..Len(v.v) :
                               v.v[i].t = "string" /\ IsEmail(v.v[i].v)
    [] type = "boolean" -> v.t = "boolean"
    [] type = "region" -> v.t = "string" /\ v.v \in {"us-east-1", "eu-west-1", "sa-east-1"}
    [] type = "tls" -> v.t = "string" /\ v.v \in {"enforced", "opportunistic"}
    [] type = "permission" -> v.t = "string" /\ v.v \in {"full_access", "sending_access"}
    [] type = "tags" ->
         v.t = "array" /\ \A i \in 1..Len(v.v) :
            /\ v.v[i].t = "object"
            /\ Get(v.v[i].v, "name").t = "string"
            /\ Get(v.v[i].v, "value").t = "string"
    [] type = "attachments" ->
         v.t = "array" /\ \A i \in 1..Len(v.v) :
            /\ v.v[i].t = "object"
            /\ Get(v.v[i].v, "filename").t = "string"
            /\ Get(v.v[i].v, "content").t = "string"
            /\ Get(v.v[i].v, "path").t \in {"string", "undefined"}
    [] type = "batchAttachments" ->
         v.t = "array" /\ \A i \in 1..Len(v.v) :
            /\ v.v[i].t = "object"
            /\ Get(v.v[i].v, "filename").t = "string"
            /\ Get(v.v[i].v, "content").t = "string"
    [] type = "headers" ->
         v.t = "object" /\ \A k \in DOMAIN v.v : v.v[k].t = "string"
    [] OTHER -> FALSE

ParseLeaf(type, v) ==
  CASE type = "tags" ->
         Arr([i \in 1..Len(v.v) |-> Obj(Restrict(v.v[i].v, {"name", "value"}))])
    [] type = "attachments" ->
         Arr([i \in 1..Len(v.v) |->
                Obj(Restrict(v.v[i].v, {"filename", "content", "path"}))])
    [] type = "batchAttachments" ->
         Arr([i \in 1..Len(v.v) |-> Obj(Restrict(v.v[i].v, {"filename", "content"}))])
    [] OTHER -> v

\* One entry of the emails array of send-batch-emails.
BatchEntrySchema ==
  [to |-> Req("recipients"), subject |-> Req("string"), text |-> Req("string"),
   from |-> Opt("email"), html |-> Opt("string"), cc |-> Opt("recipients"),
   bcc |-> Opt("recipients"), replyTo |-> Opt("recipients"),
   scheduledAt |-> Opt("string"), tags |-> Opt("tags"),
   attachments |-> Opt("batchAttachments"), headers |-> Opt("headers")]

ValidEntry(v) ==
  /\ v.t = "object"
  /\ \A k \in DOMAIN BatchEntrySchema :
       IF k \in DOMAIN v.v
       THEN ValidLeaf(BatchEntrySchema[k].type, v.v[k])
       ELSE BatchEntrySchema[k].opt

ParseEntry(v) ==
  Obj([k \in (DOMAIN v.v) \cap (DOMAIN BatchEntrySchema) |->
         ParseLeaf(BatchEntrySchema[k].type, v.v[k])])

ValidEmails(v) ==
  /\ v.t = "array"
  /\ Len(v.v) <= MaxBatch
  /\ \A i \in 1..Len(v.v) : ValidEntry(v.v[i])

ValidValue(type, v) ==
  IF type = "emails" THEN ValidEmails(v) ELSE ValidLeaf(type, v)

ParseValue(type, v) ==
  IF type = "emails" THEN Arr([i \in 1..Len(v.v) |-> ParseEntry(v.v[i])])
  ELSE ParseLeaf(type, v)

\* safeParse(...).success for a z.object(schema)
SchemaAccepts(schema, raw) ==
  \A k \in DOMAIN schema :
    IF k \in DOMAIN raw THEN ValidValue(schema[k].type, raw[k]) ELSE schema[k].opt

\* A parse that keeps the keys the schema does not name (z.object().passthrough()).
Parse_Passthrough(schema, raw) ==
  [k \in DOMAIN raw |->
     IF k \in DOMAIN schema THEN ParseValue(schema[k].type, raw[k]) ELSE raw[k]]

\* safeParse(...).data: unknown keys stripped, missing optional keys stay missing.
Parse(schema, raw) ==
  [k \in (DOMAIN raw) \cap (DOMAIN schema) |-> ParseValue(schema[k].type, raw[k])]

(***************************************************************************)
(* The 28 registered tools and their parameter schemas.  The send-email    *)
(* schema is built at registration from the process defaults: `from` is a  *)
(* (required) field only when no default sender is configured, `replyTo`   *)
(* is a field only when no default reply-to address is configured.         *)
(***************************************************************************)
ToolNames ==
  {"send-email", "send-batch-emails", "get-email", "update-email", "cancel-email",
   "create-domain", "list-domains", "get-domain", "update-domain", "delete-domain",
   "verify-domain", "create-api-key", "list-api-keys", "delete-api-key",
   "create-audience", "list-audiences", "get-audience", "delete-audience",
   "create-contact", "list-contacts", "get-contact", "update-contact",
   "delete-contact", "create-broadcast", "list-broadcasts", "get-broadcast",
   "send-broadcast", "delete-broadcast"}

SendEmailSchema ==
  [to |-> Req("recipients"), subject |-> Req("string"), text |-> Req("string"),
   html |-> Opt("string"), cc |-> Opt("recipients"), bcc |-> Opt("recipients"),
   scheduledAt |-> Opt("string"), tags |-> Opt("tags"),
   attachments |-> Opt("attachments"), headers |-> Opt("headers")]
  @@ (IF ~Truthy(senderEmailAddress) THEN [from |-> Req("email")] ELSE EmptyObj)
  @@ (IF Len(replierEmailAddresses.v) = 0 THEN [replyTo |-> Opt("recipients")]
      ELSE EmptyObj)

ToolSchema(name) ==
  CASE name = "send-email" -> SendEmailSchema
    [] name = "send-batch-emails" -> [emails |-> Req("emails")]
    [] name \in {"get-email", "cancel-email"} -> [emailId |-> Req("string")]
    [] name = "update-email" -> [emailId |-> Req("string"), scheduledAt |-> Req("string")]
    [] name = "create-domain" -> [name |-> Req("string"), region |-> Opt("region")]
    [] name \in {"get-domain", "delete-domain", "verify-domain"} ->
         [domainId |-> Req("string")]
    [] name = "update-domain" ->
         [domainId |-> Req("string"), openTracking |-> Opt("boolean"),
          clickTracking |-> Opt("boolean"), tls |-> Opt("tls")]
    [] name = "create-api-key" ->
         [name |-> Req("string"), permission |-> Opt("permission"),
          domainId |-> Opt("string")]
    [] name = "delete-api-key" -> [apiKeyId |-> Req("string")]
    [] name = "create-audience" -> [name |-> Req("string")]
    [] name \in {"get-audience", "delete-audience", "list-contacts"} ->
         [audienceId |-> Req("string")]
    [] name = "create-contact" ->
         [audienceId |-> Req("string"), email |-> Req("email"),
          firstName |-> Opt("string"), lastName |-> Opt("string"),
          unsubscribed |-> Opt("boolean")]
    [] name = "get-contact" -> [audienceId |-> Req("string"), contactId |-> Req("string")]
    [] name = "update-contact" ->
         [audienceId |-> Req("string"), contactId |-> Req("string"),
          firstName |-> Opt("string"), lastName |-> Opt("string"),
          unsubscribed |-> Opt("boolean")]
    [] name = "delete-contact" ->
         [audienceId |-> Req("string"), contactId |-> Opt("string"),
          email |-> Opt("email")]
    [] name = "create-broadcast" ->
         [name |-> Req("string"), audienceId |-> Req("string"), from |-> Req("email"),
          subject |-> Req("string"), replyTo |-> Opt("recipients"),
          previewText |-> Opt("string"), text |-> Opt("string"), html |-> Opt("string")]
    [] name \in {"get-broadcast", "delete-broadcast"} -> [broadcastId |-> Req("string")]
    [] name = "send-broadcast" ->
         [broadcastId |-> Req("string"), scheduledAt |-> Opt("string")]
    [] OTHER -> EmptyObj  \* list-domains, list-api-keys, list-audiences, list-broadcasts

(***************************************************************************)
(* Handlers, first half: from the validated arguments to the gateway call  *)
(* (or to a throw before it).                                              *)
(***************************************************************************)
Throw(msg) == [kind |-> "throw", message |-> msg]
Call(op, args) == [kind |-> "call", op |-> op, args |-> args]

\* if (x) request.k = x
IfSet(a, k) == IF Truthy(Get(a, k)) THEN k :> Get(a, k) ELSE EmptyObj

\* if (x !== undefined) updateData.field = x
IfDefined(a, k, field) ==
  IF Get(a, k).t # "undefined" THEN field :> Get(a, k) ELSE EmptyObj

SendEmailStart(a) ==
  LET fromEmailAddress == Coalesce(Get(a, "from"), senderEmailAddress)
      replyToEmailAddresses == Coalesce(Get(a, "replyTo"), replierEmailAddresses)
      emailRequest ==
        [to |-> Get(a, "to"), subject |-> Get(a, "subject"),
         text |-> Get(a, "text"), from |-> fromEmailAddress]
        @@ (IF /\ Truthy(replyToEmailAddresses)
               /\ \/ replyToEmailAddresses.t = "string"
                  \/ /\ replyToEmailAddresses.t = "array"
                     /\ Len(replyToEmailAddresses.v) > 0
            THEN [replyTo |-> replyToEmailAddresses] ELSE EmptyObj)
        @@ IfSet(a, "html") @@ IfSet(a, "scheduledAt") @@ IfSet(a, "cc")
        @@ IfSet(a, "bcc") @@ IfSet(a, "tags") @@ IfSet(a, "attachments")
        @@ IfSet(a, "headers")
  IN IF fromEmailAddress.t # "string"
     THEN Throw(<<"from argument must be provided.">>)
     ELSE Call("emails.send", <<Obj(emailRequest)>>)

\* emails.map(email => ({...email, from: email.from || senderEmailAddress}))
BatchEmail(email) ==
  Obj(("from" :> OrElse(Get(email.v, "from"), senderEmailAddress)) @@ email.v)

SendBatchEmailsStart(a) ==
  LET emails == Get(a, "emails")
  IN Call("batch.send", <<Arr([i \in 1..Len(emails.v) |-> BatchEmail(emails.v[i])])>>)

UpdateDomainStart(a) ==
  Call("domains.update",
       <<Obj([id |-> Get(a, "domainId")]
             @@ IfDefined(a, "openTracking", "openTracking")
             @@ IfDefined(a, "clickTracking", "clickTracking")
             @@ IfDefined(a, "tls", "tls"))>>)

\* A key creation whose permission defaults to full access.
CreateApiKeyStart_FullDefault(a) ==
  Call("apiKeys.create",
       <<Obj([name |-> Get(a, "name"),
              permission |-> OrElse(Get(a, "permission"), Str("full_access")),
              domain_id |-> Get(a, "domainId")])>>)

CreateApiKeyStart(a) ==
  Call("apiKeys.create",
       <<Obj([name |-> Get(a, "name"),
              permission |-> OrElse(Get(a, "permission"), Str("sending_access")),
              domain_id |-> Get(a, "domainId")])>>)

CreateContactStart(a) ==
  Call("contacts.create",
       <<Obj([audienceId |-> Get(a, "audienceId"), email |-> Get(a, "email"),
              firstName |-> Get(a, "firstName"), lastName |-> Get(a, "lastName"),
              unsubscribed |-> Get(a, "unsubscribed")])>>)

UpdateContactStart(a) ==
  Call("contacts.update",
       <<Obj([audienceId |-> Get(a, "audienceId"), id |-> Get(a, "contactId")]
             @@ IfDefined(a, "firstName", "first_name")
             @@ IfDefined(a, "lastName", "last_name")
             @@ IfDefined(a, "unsubscribed", "unsubscribed"))>>)

\* delete-contact without its identifier guard.
DeleteContactStart_Unguarded(a) ==
  Call("contacts.remove",
       <<Obj([audienceId |-> Get(a, "audienceId"), id |-> Get(a, "contactId"),
              email |-> Get(a, "email")])>>)

DeleteContactStart(a) ==
  IF ~Truthy(Get(a, "contactId")) /\ ~Truthy(Get(a, "email"))
  THEN Throw(<<"Either contactId or email must be provided">>)
  ELSE Call("contacts.remove",
            <<Obj([audienceId |-> Get(a, "audienceId"), id |-> Get(a, "contactId"),
                   email |-> Get(a, "email")])>>)

CreateBroadcastStart(a) ==
  IF ~Truthy(Get(a, "text")) /\ ~Truthy(Get(a, "html"))
  THEN Throw(<<"Either text or html content must be provided">>)
  ELSE Call("broadcasts.create",
            <<Obj([name |-> Get(a, "name"), audienceId |-> Get(a, "audienceId"),
                   from |-> Get(a, "from"), subject |-> Get(a, "subject"),
                   replyTo |-> Get(a, "replyTo"), previewText |-> Get(a, "previewText"),
                   text |-> Get(a, "text"), html |-> Get(a, "html")])>>)

SendBroadcastStart(a) ==
  Call("broadcasts.send",
       <<Get(a, "broadcastId"),
         IF Truthy(Get(a, "scheduledAt"))
         THEN Obj([scheduledAt |-> Get(a, "scheduledAt")]) ELSE Undefined>>)

HandlerStart(name, a) ==
  CASE name = "send-email" -> SendEmailStart(a)
    [] name = "send-batch-emails" -> SendBatchEmailsStart(a)
    [] name = "get-email" -> Call("emails.get", <<Get(a, "emailId")>>)
    [] name = "update-email" ->
         Call("emails.update",
              <<Obj([id |-> Get(a, "emailId"), scheduledAt |-> Get(a, "scheduledAt")])>>)
    [] name = "cancel-email" -> Call("emails.cancel", <<Get(a, "emailId")>>)
    [] name = "create-domain" ->
         Call("domains.create",
              <<Obj([name |-> Get(a, "name"), region |-> Get(a, "region")])>>)
    [] name = "list-domains" -> Call("domains.list", <<>>)
    [] name = "get-domain" -> Call("domains.get", <<Get(a, "domainId")>>)
    [] name = "update-domain" -> UpdateDomainStart(a)
    [] name = "delete-domain" -> Call("domains.remove", <<Get(a, "domainId")>>)
    [] name = "verify-domain" -> Call("domains.verify", <<Get(a, "domainId")>>)
    [] name = "create-api-key" -> CreateApiKeyStart(a)
    [] name = "list-api-keys" -> Call("apiKeys.list", <<>>)
    [] name = "delete-api-key" -> Call("apiKeys.remove", <<Get(a, "apiKeyId")>>)
    [] name = "create-audience" ->
         Call("audiences.create", <<Obj([name |-> Get(a, "name")])>>)
    [] name = "list-audiences" -> Call("audiences.list", <<>>)
    [] name = "get-audience" -> Call("audiences.get", <<Get(a, "audienceId")>>)
    [] name = "delete-audience" -> Call("audiences.remove", <<Get(a, "audienceId")>>)
    [] name = "create-contact" -> CreateContactStart(a)
    [] name = "list-contacts" ->
         Call("contacts.list", <<Obj([audienceId |-> Get(a, "audienceId")])>>)
    [] name = "get-contact" ->
         Call("contacts.get",
              <<Obj([audienceId |-> Get(a, "audienceId"), id |-> Get(a, "contactId")])>>)
    [] name = "update-contact" -> UpdateContactStart(a)
    [] name = "delete-contact" -> DeleteContactStart(a)
    [] name = "create-broadcast" -> CreateBroadcastStart(a)
    [] name = "list-broadcasts" -> Call("broadcasts.list", <<>>)
    [] name = "get-broadcast" -> Call("broadcasts.get", <<Get(a, "broadcastId")>>)
    [] name = "send-broadcast" -> SendBroadcastStart(a)
    [] name = "delete-broadcast" -> Call("broadcasts.remove", <<Get(a, "broadcastId")>>)

(***************************************************************************)
(* The Provider Gateway (the Resend client).  A call resolves to           *)
(* {data, error: null} or to {data: null, error}; it never rejects.        *)
(***************************************************************************)
Failures ==
  {Obj([name |-> Str("validation_error"), message |-> Str("Invalid request"),
        statusCode |-> Num(422)]),
   Obj([name |-> Str("rate_limit_exceeded"), message |-> Str("Too many requests"),
        statusCode |-> Num(429)])}

IdOf(v) == IF v.t = "string" THEN v ELSE OptGet(v, "id")

GatewayData(call) ==
  CASE call.op = "emails.send" -> Obj([id |-> Str("em_1")])
    [] call.op = "batch.send" ->
         Obj([data |-> Arr([i \in 1..Len(call.args[1].v) |->
                              Obj([id |-> Str("em_" \o ToString(i))])])])
    [] call.op \in {"emails.get", "emails.update", "emails.cancel"} ->
         Obj([object |-> Str("email"), id |-> IdOf(call.args[1])])
    [] call.op = "domains.create" ->
         Obj([id |-> Str("dom_1"), name |-> Get(call.args[1].v, "name"),
              records |-> Arr(<<Obj([record |-> Str("SPF"), name |-> Str("send"),
                                     value |-> Str("v=spf1")])>>)])
    [] call.op \in {"domains.get", "domains.update", "domains.remove", "domains.verify"} ->
         Obj([object |-> Str("domain"), id |-> IdOf(call.args[1])])
    [] call.op = "apiKeys.create" -> Obj([id |-> Str("key_1"), token |-> Str("re_secret")])
    [] call.op = "apiKeys.remove" -> Obj(EmptyObj)
    [] call.op = "audiences.create" ->
         Obj([object |-> Str("audience"), id |-> Str("aud_1"),
              name |-> Get(call.args[1].v, "name")])
    [] call.op \in {"audiences.get", "audiences.remove"} ->
         Obj([object |-> Str("audience"), id |-> IdOf(call.args[1])])
    [] call.op = "contacts.create" -> Obj([object |-> Str("contact"), id |-> Str("con_1")])
    [] call.op \in {"contacts.get", "contacts.update"} ->
         Obj([object |-> Str("contact"), id |-> IdOf(call.args[1])])
    [] call.op = "contacts.remove" ->
         Obj([object |-> Str("contact"), contact |-> Str("con_1"), deleted |-> Bool(TRUE)])
    [] call.op = "broadcasts.create" -> Obj([id |-> Str("bc_1")])
    [] call.op \in {"broadcasts.get", "broadcasts.send", "broadcasts.remove"} ->
         Obj([id |-> IdOf(call.args[1])])
    [] OTHER ->  \* domains.list, apiKeys.list, audiences.list, contacts.list, broadcasts.list
         Obj([object |-> Str("list"),
              data |-> Arr(<<Obj([id |-> Str("it_1"), name |-> Str("first")]),
                             Obj([id |-> Str("it_2"), name |-> Str("second")])>>)])

GatewayResponses(call) ==
  {[data |-> GatewayData(call), error |-> Null]}
  \cup {[data |-> Null, error |-> e] : e \in Failures}

(***************************************************************************)
(* Handlers, second half: from the gateway's response to the result.       *)
(***************************************************************************)
Return(text) == [kind |-> "return", text |-> text]

ErrorPrefix(name) ==
  CASE name = "send-email" -> "Email failed to send"
    [] name = "send-batch-emails" -> "Batch email failed to send"
    [] name = "get-email" -> "Failed to get email"
    [] name = "update-email" -> "Failed to update email"
    [] name = "cancel-email" -> "Failed to cancel email"
    [] name = "create-domain" -> "Failed to create domain"
    [] name = "list-domains" -> "Failed to list domains"
    [] name = "get-domain" -> "Failed to get domain"
    [] name = "update-domain" -> "Failed to update domain"
    [] name = "delete-domain" -> "Failed to delete domain"
    [] name = "verify-domain" -> "Failed to verify domain"
    [] name = "create-api-key" -> "Failed to create API key"
    [] name = "list-api-keys" -> "Failed to list API keys"
    [] name = "delete-api-key" -> "Failed to delete API key"
    [] name = "create-audience" -> "Failed to create audience"
    [] name = "list-audiences" -> "Failed to list audiences"
    [] name = "get-audience" -> "Failed to get audience"
    [] name = "delete-audience" -> "Failed to delete audience"
    [] name = "create-contact" -> "Failed to create contact"
    [] name = "list-contacts" -> "Failed to list contacts"
    [] name = "get-contact" -> "Failed to get contact"
    [] name = "update-contact" -> "Failed to update contact"
    [] name = "delete-contact" -> "Failed to delete contact"
    [] name = "create-broadcast" -> "Failed to create broadcast"
    [] name = "list-broadcasts" -> "Failed to list broadcasts"
    [] name = "get-broadcast" -> "Failed to get broadcast"
    [] name = "send-broadcast" -> "Failed to send broadcast"
    [] name = "delete-broadcast" -> "Failed to delete broadcast"

\* `... ID: ${response.data?.id}`
WithId(prefix, data) == <<prefix, Interp(OptGet(data, "id"))>>

\* An id list written in the reverse of the response's order.
BatchIds_Reversed(data) ==
  LET list == OptGet(data, "data")
  IN JoinStr([i \in 1..Len(list.v) |->
                Interp(OptGet(list.v[Len(list.v) + 1 - i], "id"))], ", ")

\* response.data?.data.map(e => e.id).join(', ')
BatchIds(data) ==
  LET list == OptGet(data, "data")
  IN JoinStr([i \in 1..Len(list.v) |-> Interp(OptGet(list.v[i], "id"))], ", ")

\* A confirmation that leaves the token out.
CreateApiKeyText_NoToken(data) ==
  <<"API key created successfully! ID: ", Interp(OptGet(data, "id")),
    "\n\nIMPORTANT: Save this token securely, it won't be shown again!">>

\* `API key created successfully! ID: ${id}\nToken: ${token}\n\nIMPORTANT: ...`
CreateApiKeyText(data) ==
  <<"API key created successfully! ID: ", Interp(OptGet(data, "id")),
    "\nToken: ", Interp(OptGet(data, "token")),
    "\n\nIMPORTANT: Save this token securely, it won't be shown again!">>

SuccessText(name, data) ==
  CASE name = "send-email" -> WithId("Email sent successfully! ID: ", data)
    [] name = "send-batch-emails" ->
         <<"Batch emails sent successfully! IDs: ", BatchIds(data)>>
    [] name \in {"get-email", "get-domain", "list-api-keys", "get-audience",
                 "get-contact", "get-broadcast"} -> <<JSONindent(data, 0)>>
    [] name \in {"list-domains", "list-audiences", "list-contacts", "list-broadcasts"} ->
         <<JSONindent(OptGet(data, "data"), 0)>>
    [] name = "update-email" -> WithId("Email updated successfully! ID: ", data)
    [] name = "cancel-email" -> WithId("Email cancelled successfully! ID: ", data)
    [] name = "create-domain" ->
         <<"Domain created successfully! ID: ", Interp(OptGet(data, "id")),
           "\n\nDNS Records to configure:\n", JSONindent(OptGet(data, "records"), 0)>>
    [] name = "update-domain" -> WithId("Domain updated successfully! ID: ", data)
    [] name = "delete-domain" -> WithId("Domain deleted successfully! ID: ", data)
    [] name = "verify-domain" -> WithId("Domain verification triggered! ID: ", data)
    [] name = "create-api-key" -> CreateApiKeyText(data)
    [] name = "delete-api-key" -> <<"API key deleted successfully!">>
    [] name = "create-audience" -> WithId("Audience created successfully! ID: ", data)
    [] name = "delete-audience" -> WithId("Audience deleted successfully! ID: ", data)
    [] name = "create-contact" -> WithId("Contact created successfully! ID: ", data)
    [] name = "update-contact" -> WithId("Contact updated successfully! ID: ", data)
    [] name = "delete-contact" -> <<"Contact deleted successfully!">>
    [] name = "create-broadcast" -> WithId("Broadcast created successfully! ID: ", data)
    [] name = "send-broadcast" -> WithId("Broadcast sent successfully! ID: ", data)
    [] name = "delete-broadcast" -> WithId("Broadcast deleted successfully! ID: ", data)

\* A failure branch that drops the payload from the message.
HandlerFinish_NoPayload(name, resp) ==
  IF Truthy(resp.error)
  THEN Throw(<<ErrorPrefix(name)>>)
  ELSE Return(SuccessText(name, resp.data))

\* if (response.error) throw new Error(`<prefix>: ${JSON.stringify(response.error)}`)
HandlerFinish(name, resp) ==
  IF Truthy(resp.error)
  THEN Throw(<<ErrorPrefix(name) \o ": ", JSONstringify(resp.error)>>)
  ELSE Return(SuccessText(name, resp.data))

\* The SDK turns a handler's return value into the result and a throw (of the
\* handler or of the schema parse) into a failure result carrying the message.
ToResult(outcome) ==
  [isError |-> outcome.kind = "throw",
   text |-> IF outcome.kind = "throw" THEN outcome.message ELSE outcome.text]

(***************************************************************************)
(* Invocations the model draws from                                        *)
(***************************************************************************)
MaxList == 2        \* longest recipient list tried
MaxSmallBatch == 2  \* longest batch tried with every mix of entries
MaxTagLen == 256    \* the tag length limit the changelog documents

Good == Str("a@x.com")
Bad == Str("not-an-email")

\* One address, or a list of up to MaxList addresses, well-formed or not.
RecipientValues ==
  {Good, Bad} \cup {Arr(q) : q \in UNION {[1..n -> {Good, Bad}] : n \in 0..MaxList}}

RecipientFields == {"to", "cc", "bcc", "replyTo"}

RECURSIVE Rep(_, _)
Rep(c, n) ==
  IF n = 0 THEN ""
  ELSE IF n % 2 = 1 THEN c \o Rep(c, n - 1)
  ELSE LET half == Rep(c, n \div 2) IN half \o half

\* A string holding a character outside ASCII (strings are opaque to the model).
NonAsciiStrings == {"caf<U+00E9>"}
IsAscii(s) == s \notin NonAsciiStrings

Tag(n, v) == Obj([name |-> Str(n), value |-> Str(v)])

TagLists ==
  {Arr(<<Tag("env", "prod")>>),
   Arr(<<Tag(Rep("a", MaxTagLen), Rep("b", MaxTagLen))>>),
   Arr(<<Tag(Rep("a", MaxTagLen + 1), "prod")>>),
   Arr(<<Tag("env", Rep("b", MaxTagLen + 1))>>),
   Arr(<<Tag("caf<U+00E9>", "prod")>>),
   Arr(<<Tag("env", "prod"), Tag("kind", "caf<U+00E9>")>>)}

With(o, k, v) == (k :> v) @@ o

BaseEmail == [to |-> Good, subject |-> Str("Hi"), text |-> Str("Body")]
WithFrom == With(BaseEmail, "from", Str("s@x.com"))

SendEmailArgs ==
  {With(base, f, r) : base \in {BaseEmail, WithFrom}, f \in RecipientFields,
                      r \in RecipientValues}
  \cup {BaseEmail, WithFrom}
  \cup {With(WithFrom, "tags", tl) : tl \in TagLists}
  \cup {With(WithFrom, "html", Str("")), With(WithFrom, "html", Str("<p>Body</p>")),
        With(WithFrom, "scheduledAt", Str("tomorrow at 10am")),
        [to |-> Good, text |-> Str("Body"), from |-> Str("s@x.com")],
        With(BaseEmail, "from", Bad)}

EntryKinds == {Obj(BaseEmail), Obj(WithFrom), Obj(With(BaseEmail, "to", Bad))}

Batch(q) == [emails |-> Arr(q)]

SendBatchEmailsArgs ==
  {Batch(q) : q \in UNION {[1..n -> EntryKinds] : n \in 0..MaxSmallBatch}}
  \cup {Batch([i \in 1..n |-> e]) : n \in (MaxBatch - 1)..(MaxBatch + 1),
                                    e \in {Obj(BaseEmail), Obj(WithFrom)}}
  \cup {Batch(<<Obj(With(BaseEmail, f, r))>>) : f \in RecipientFields,
                                                r \in RecipientValues}
  \cup {Batch(<<Obj(With(BaseEmail, "tags", tl))>>) : tl \in TagLists}

Optionally(o, k, vs) == {o} \cup {With(o, k, v) : v \in vs}

BaseBroadcast ==
  [name |-> Str("News"), audienceId |-> Str("aud_1"), from |-> Str("s@x.com"),
   subject |-> Str("Hi")]

ToolArgs(name) ==
  CASE name = "send-email" -> SendEmailArgs
    [] name = "send-batch-emails" -> SendBatchEmailsArgs
    [] name \in {"get-email", "cancel-email"} -> {EmptyObj, [emailId |-> Str("em_1")]}
    [] name = "update-email" ->
         {[emailId |-> Str("em_1")],
          [emailId |-> Str("em_1"), scheduledAt |-> Str("in 2 hours")]}
    [] name = "create-domain" ->
         {EmptyObj} \cup Optionally([name |-> Str("example.com")], "region",
                                    {Str("eu-west-1"), Str("mars-1")})
    [] name \in {"get-domain", "delete-domain", "verify-domain"} ->
         {EmptyObj, [domainId |-> Str("dom_1")]}
    [] name = "update-domain" ->
         {EmptyObj, [domainId |-> Str("dom_1")],
          [domainId |-> Str("dom_1"), openTracking |-> Bool(FALSE)],
          [domainId |-> Str("dom_1"), clickTracking |-> Bool(TRUE),
           tls |-> Str("enforced")]}
    [] name = "create-api-key" ->
         {EmptyObj}
         \cup UNION {Optionally(o, "domainId", {Str("dom_1")}) :
                       o \in Optionally([name |-> Str("ci")], "permission",
                                        {Str("full_access"), Str("sending_access"),
                                         Str("root")})}
    [] name = "delete-api-key" -> {EmptyObj, [apiKeyId |-> Str("key_1")]}
    [] name = "create-audience" -> {EmptyObj, [name |-> Str("Subscribers")]}
    [] name \in {"get-audience", "delete-audience", "list-contacts"} ->
         {EmptyObj, [audienceId |-> Str("aud_1")]}
    [] name = "create-contact" ->
         {[audienceId |-> Str("aud_1")],
          [audienceId |-> Str("aud_1"), email |-> Bad],
          [audienceId |-> Str("aud_1"), email |-> Good],
          [audienceId |-> Str("aud_1"), email |-> Good, firstName |-> Str("Ann")],
          [audienceId |-> Str("aud_1"), email |-> Good, firstName |-> Str("Ann"),
           lastName |-> Str("Lee"), unsubscribed |-> Bool(FALSE)]}
    [] name = "get-contact" ->
         {[audienceId |-> Str("aud_1")],
          [audienceId |-> Str("aud_1"), contactId |-> Str("con_1")]}
    [] name = "update-contact" ->
         {[audienceId |-> Str("aud_1")],
          [audienceId |-> Str("aud_1"), contactId |-> Str("con_1")],
          [audienceId |-> Str("aud_1"), contactId |-> Str("con_1"),
           firstName |-> Str(""), unsubscribed |-> Bool(FALSE)]}
    [] name = "delete-contact" ->
         UNION {Optionally(o, "email", {Good, Bad}) :
                  o \in Optionally([audienceId |-> Str("aud_1")], "contactId",
                                   {Str("con_1"), Str("")})}
    [] name = "create-broadcast" ->
         {[name |-> Str("News")], With(BaseBroadcast, "replyTo", Arr(<<Good, Bad>>))}
         \cup UNION {Optionally(o, "html", {Str("<p>Body</p>")}) :
                       o \in Optionally(BaseBroadcast, "text", {Str("Body"), Str("")})}
         \cup {With(With(BaseBroadcast, "text", Str("Body")), "replyTo", Good),
               With(With(BaseBroadcast, "html", Str("<p>Body</p>")), "previewText",
                    Str("Preview"))}
    [] name \in {"get-broadcast", "delete-broadcast"} ->
         {EmptyObj, [broadcastId |-> Str("bc_1")]}
    [] name = "send-broadcast" ->
         {EmptyObj, [broadcastId |-> Str("bc_1")],
          [broadcastId |-> Str("bc_1"), scheduledAt |-> Str("in 1 hour")],
          [broadcastId |-> Str("bc_1"), scheduledAt |-> Str("")]}
    [] OTHER -> {EmptyObj, [verbose |-> Bool(TRUE)]}

(***************************************************************************)
(* The state machine                                                       *)
(***************************************************************************)
\* A flag or environment value is a sequence of tokens, "," being a token of its
\* own; the string it stands for is the tokens written one after the other, and
\* the empty sequence stands for a value that is not given (or empty).
Text(toks) == JoinStr(toks, "")

\* s.split(",")
RECURSIVE Split(_)
Split(toks) ==
  IF \A n \in 1..Len(toks) : toks[n] # "," THEN <<toks>>
  ELSE LET k == CHOOSE n \in 1..Len(toks) :
                  toks[n] = "," /\ \A m \in 1..(n - 1) : toks[m] # ","
       IN <<SubSeq(toks, 1, k - 1)>> \o Split(SubSeq(toks, k + 1, Len(toks)))

\* process.env.NAME
EnvValue(toks) == IF Len(toks) = 0 THEN Undefined ELSE Str(Text(toks))

\* minimist: a flag given once with a value is a string, given once without a
\* value is true, given several times is an array, not given is undefined.
Minimist(flags) ==
  [key |-> EnvValue(flags.key),
   sender |-> EnvValue(flags.sender),
   replyTo |->
     IF Len(flags.replyTo) = 0 THEN Undefined
     ELSE IF Len(flags.replyTo) = 1
          THEN IF Len(flags.replyTo[1]) = 0 THEN Bool(TRUE)
               ELSE Str(Text(flags.replyTo[1]))
          ELSE Arr([n \in 1..Len(flags.replyTo) |-> Str(Text(flags.replyTo[n]))])]

\* argv.key || process.env.RESEND_API_KEY
ResolveApiKey(flags, environ) ==
  OrElse(Minimist(flags).key, EnvValue(environ.RESEND_API_KEY))

\* argv.sender || process.env.SENDER_EMAIL_ADDRESS
ResolveSender(flags, environ) ==
  OrElse(Minimist(flags).sender, EnvValue(environ.SENDER_EMAIL_ADDRESS))

ResolveReplyTo(flags, environ) ==
  LET given == Minimist(flags).replyTo
  IN IF given.t = "array" THEN given
     ELSE IF given.t = "string" THEN Arr(<<given>>)
     ELSE IF Truthy(EnvValue(environ.REPLY_TO_EMAIL_ADDRESSES))
          THEN LET parts == Split(environ.REPLY_TO_EMAIL_ADDRESSES)
               IN Arr([n \in 1..Len(parts) |-> Str(Text(parts[n]))])
          ELSE Arr(<<>>)

NoFlags == [key |-> <<>>, sender |-> <<>>, replyTo |-> <<>>]
NoEnv == [RESEND_API_KEY |-> <<>>, SENDER_EMAIL_ADDRESS |-> <<>>,
          REPLY_TO_EMAIL_ADDRESSES |-> <<>>]

ReplyToFlags ==
  {<<>>, <<<<>>>>, <<<<"r1@corp.com", ",", "r2@corp.com">>>>,
   <<<<"r1@corp.com">>, <<"r2@corp.com">>>>}
ReplyToEnv == {<<>>, <<"e1@corp.com", ",", "e2@corp.com">>}

\* The ways the process is started.
Configs ==
  {[flags |-> [NoFlags EXCEPT !.key = k], environ |-> [NoEnv EXCEPT !.RESEND_API_KEY = e]] :
     k \in {<<>>, <<"re_flag">>}, e \in {<<>>, <<"re_env">>}}
  \cup {[flags |-> [key |-> <<>>, sender |-> <<"sender@corp.com">>,
                    replyTo |-> <<<<"r1@corp.com">>>>],
         environ |-> NoEnv]}
  \cup {[flags |-> [key |-> <<"re_flag">>, sender |-> sf, replyTo |-> rf],
         environ |-> [RESEND_API_KEY |-> <<>>, SENDER_EMAIL_ADDRESS |-> se,
                      REPLY_TO_EMAIL_ADDRESSES |-> re]] :
          sf \in {<<>>, <<"sender@corp.com">>}, se \in {<<>>, <<"env@corp.com">>},
          rf \in ReplyToFlags, re \in ReplyToEnv}

\* The process has been launched and nothing of index.ts has run yet.
InitWith(configs) ==
  /\ \E c \in configs : cmdline = c.flags /\ env = c.environ
  /\ phase = "starting"
  /\ apiKey = Undefined
  /\ exitCode = -1
  /\ stderr = <<>>
  /\ registered = {}
  /\ senderEmailAddress = Undefined
  /\ replierEmailAddresses = Arr(<<>>)
  /\ pc = [i \in Slots |-> "idle"]
  /\ tool = [i \in Slots |-> "none"]
  /\ rawArgs = [i \in Slots |-> EmptyObj]
  /\ calls = [i \in Slots |-> <<>>]
  /\ response = [i \in Slots |-> Null]
  /\ result = [i \in Slots |-> Null]

Init == InitWith(Configs)

\* A startup that reports the missing API key and carries on.
Startup_NoExit ==
  /\ phase = "starting"
  /\ apiKey' = ResolveApiKey(cmdline, env)
  /\ senderEmailAddress' = ResolveSender(cmdline, env)
  /\ replierEmailAddresses' = ResolveReplyTo(cmdline, env)
  /\ stderr' = IF Truthy(apiKey') THEN <<>> ELSE <<"No API key provided.">>
  /\ registered' = ToolNames
  /\ phase' = "running"
  /\ exitCode' = exitCode
  /\ UNCHANGED <<cmdline, env, pc, tool, rawArgs, calls, response, result>>

\* The module body of index.ts and main(): the defaults are resolved, a missing
\* API key ends the process, otherwise the tools are registered and the server
\* connects to the transport (a connect that fails ends the process as well).
Startup ==
  /\ phase = "starting"
  /\ apiKey' = ResolveApiKey(cmdline, env)
  /\ senderEmailAddress' = ResolveSender(cmdline, env)
  /\ replierEmailAddresses' = ResolveReplyTo(cmdline, env)
  /\ IF ~Truthy(apiKey')
     THEN /\ stderr' = <<"No API key provided. Please set RESEND_API_KEY environment variable or use --key argument">>
          /\ exitCode' = 1
          /\ phase' = "exited"
          /\ registered' = registered
     ELSE /\ registered' = ToolNames
          /\ \E connected \in BOOLEAN :
               IF connected
               THEN /\ stderr' = <<"Resend MCP Server running on stdio - All API endpoints available!">>
                    /\ phase' = "running"
                    /\ exitCode' = exitCode
               ELSE /\ stderr' = <<"Fatal error in main():">>
                    /\ phase' = "exited"
                    /\ exitCode' = 1
  /\ UNCHANGED <<cmdline, env, pc, tool, rawArgs, calls, response, result>>

\* What the dispatcher does with an invocation up to the handler's await (or to
\* its end, when the schema rejects the arguments or the handler throws first).
Dispatch(name, raw) ==
  IF ~SchemaAccepts(ToolSchema(name), raw)
  THEN Throw(<<"Invalid arguments for tool " \o name>>)
  ELSE HandlerStart(name, Parse(ToolSchema(name), raw))

\* A dispatcher that keeps an invocation's sender as the new default.
Arrive_StickySender(i, name, raw) ==
  LET d == Dispatch(name, raw)
  IN /\ phase = "running"
     /\ name \in registered
     /\ pc[i] = "idle"
     /\ tool' = [tool EXCEPT ![i] = name]
     /\ rawArgs' = [rawArgs EXCEPT ![i] = raw]
     /\ IF d.kind = "throw"
        THEN /\ pc' = [pc EXCEPT ![i] = "done"]
             /\ result' = [result EXCEPT ![i] = ToResult(d)]
             /\ calls' = calls
        ELSE /\ pc' = [pc EXCEPT ![i] = "awaiting"]
             /\ calls' = [calls EXCEPT ![i] = Append(@, [op |-> d.op, args |-> d.args])]
             /\ result' = result
     /\ senderEmailAddress' = Coalesce(Get(raw, "from"), senderEmailAddress)
     /\ UNCHANGED <<replierEmailAddresses, response>>
     /\ UNCHANGED <<cmdline, env, phase, apiKey, exitCode, stderr, registered>>

\* An invocation of tool `name` with arguments `raw` is taken up in slot i:
\* schema validation, then the handler up to its await.
Arrive(i, name, raw) ==
  LET d == Dispatch(name, raw)
  IN /\ phase = "running"
     /\ name \in registered
     /\ pc[i] = "idle"
     /\ tool' = [tool EXCEPT ![i] = name]
     /\ rawArgs' = [rawArgs EXCEPT ![i] = raw]
     /\ IF d.kind = "throw"
        THEN /\ pc' = [pc EXCEPT ![i] = "done"]
             /\ result' = [result EXCEPT ![i] = ToResult(d)]
             /\ calls' = calls
        ELSE /\ pc' = [pc EXCEPT ![i] = "awaiting"]
             /\ calls' = [calls EXCEPT ![i] = Append(@, [op |-> d.op, args |-> d.args])]
             /\ result' = result
     /\ UNCHANGED <<senderEmailAddress, replierEmailAddresses, response>>
     /\ UNCHANGED startupVars

\* The dispatcher takes one invocation at a time, end to end.
Invoke(i) ==
  /\ \A j \in Slots : pc[j] = "idle"
  /\ \E name \in ToolNames : \E raw \in ToolArgs(name) : Arrive(i, name, raw)

\* A handler that repeats a failed gateway call once.
Complete_Retry(i) ==
  /\ pc[i] = "awaiting"
  /\ \E resp \in GatewayResponses(calls[i][Len(calls[i])]) :
       /\ response' = [response EXCEPT ![i] = resp]
       /\ IF Truthy(resp.error) /\ Len(calls[i]) < 2
          THEN /\ calls' = [calls EXCEPT ![i] = Append(@, calls[i][1])]
               /\ UNCHANGED <<pc, result>>
          ELSE /\ result' = [result EXCEPT ![i] = ToResult(HandlerFinish(tool[i], resp))]
               /\ pc' = [pc EXCEPT ![i] = "done"]
               /\ calls' = calls
  /\ UNCHANGED <<senderEmailAddress, replierEmailAddresses, tool, rawArgs>>
  /\ UNCHANGED startupVars

\* The gateway call resolves and the handler runs to its end.
Complete(i) ==
  /\ pc[i] = "awaiting"
  /\ \E resp \in GatewayResponses(calls[i][Len(calls[i])]) :
       /\ response' = [response EXCEPT ![i] = resp]
       /\ result' = [result EXCEPT ![i] = ToResult(HandlerFinish(tool[i], resp))]
  /\ pc' = [pc EXCEPT ![i] = "done"]
  /\ UNCHANGED <<senderEmailAddress, replierEmailAddresses, tool, rawArgs, calls>>
  /\ UNCHANGED startupVars

\* The result goes back to the client; nothing of the invocation is kept.
Deliver(i) ==
  /\ pc[i] = "done"
  /\ pc' = [pc EXCEPT ![i] = "idle"]
  /\ tool' = [tool EXCEPT ![i] = "none"]
  /\ rawArgs' = [rawArgs EXCEPT ![i] = EmptyObj]
  /\ calls' = [calls EXCEPT ![i] = <<>>]
  /\ response' = [response EXCEPT ![i] = Null]
  /\ result' = [result EXCEPT ![i] = Null]
  /\ UNCHANGED <<senderEmailAddress, replierEmailAddresses>>
  /\ UNCHANGED startupVars

Next == Startup \/ \E i \in Slots : Invoke(i) \/ Complete(i) \/ Deliver(i)

Spec == Init /\ [][Next]_vars

(***************************************************************************)
(* The pipelined server: the stdio transport hands over a request while    *)
(* earlier ones are still suspended at their gateway call.  The inputs are *)
(* a few invocations whose requests read the process defaults.             *)
(***************************************************************************)
PipelinedConfigs ==
  {[flags |-> [key |-> <<"re_flag">>, sender |-> <<"sender@corp.com">>,
               replyTo |-> <<<<"r1@corp.com">>, <<"r2@corp.com">>>>],
    environ |-> NoEnv],
   [flags |-> NoFlags,
    environ |-> [RESEND_API_KEY |-> <<"re_env">>, SENDER_EMAIL_ADDRESS |-> <<>>,
                 REPLY_TO_EMAIL_ADDRESSES |-> <<"e1@corp.com", ",", "e2@corp.com">>]],
   [flags |-> [NoFlags EXCEPT !.key = <<"re_flag">>], environ |-> NoEnv]}

PipelinedCalls ==
  {<<"send-email", BaseEmail>>,
   <<"send-email", WithFrom>>,
   <<"send-email", With(WithFrom, "replyTo", Str("b@x.com"))>>,
   <<"send-batch-emails", Batch(<<Obj(BaseEmail), Obj(WithFrom)>>)>>,
   <<"create-api-key", [name |-> Str("ci")]>>,
   <<"get-email", [emailId |-> Str("em_1")]>>,
   <<"delete-contact", [audienceId |-> Str("aud_1")]>>}

InitPipelined == InitWith(PipelinedConfigs)

\* An invocation is taken up whatever the other slots are doing.
InvokePipelined(i) == \E c \in PipelinedCalls : Arrive(i, c[1], c[2])

NextPipelined ==
  Startup \/ \E i \in Slots : InvokePipelined(i) \/ Complete(i) \/ Deliver(i)

SpecPipelined == InitPipelined /\ [][NextPipelined]_vars

\* The module body runs as soon as the process is launched.
FairSpec == Spec /\ WF_vars(Startup)

(***************************************************************************)
(* Properties                                                              *)
(***************************************************************************)
Active(i) == pc[i] # "idle"
Issued(i) == calls[i] # <<>>
\* The invocation ended as a tool-level failure without any gateway call.
RejectedUnsent(i) == pc[i] = "done" /\ calls[i] = <<>> /\ result[i].isError
\* The first argument of the (first) gateway call of slot i.
Request(i) == calls[i][1].args[1]
\* The entries of a send-batch-emails invocation.
RawEmails(i) == rawArgs[i]["emails"].v

MissingIdentifier(name, raw) ==
  name = "delete-contact" /\ "contactId" \notin DOMAIN raw /\ "email" \notin DOMAIN raw
MissingContent(name, raw) ==
  name = "create-broadcast" /\ "text" \notin DOMAIN raw /\ "html" \notin DOMAIN raw

\* C1: an invocation that a schema rule or a cross-field rule (delete-contact
\* with neither contactId nor email, create-broadcast with neither text nor
\* html) rejects never issues a gateway call and ends as a tool-level failure.
C1_ValidationNeverReachesGateway ==
  \A i \in Slots :
    (/\ Active(i)
     /\ \/ ~SchemaAccepts(ToolSchema(tool[i]), rawArgs[i])
        \/ MissingIdentifier(tool[i], rawArgs[i])
        \/ MissingContent(tool[i], rawArgs[i]))
    => RejectedUnsent(i)

\* C1 witness: a delete-contact invocation that passes the schema but names
\* neither contactId nor email has ended as a failure with no gateway call.
C1_Witness ==
  \E i \in Slots :
    /\ tool[i] = "delete-contact"
    /\ SchemaAccepts(ToolSchema(tool[i]), rawArgs[i])
    /\ MissingIdentifier(tool[i], rawArgs[i])
    /\ RejectedUnsent(i)

SenderAsClaimed(raw, req) ==
  IF "from" \in DOMAIN raw THEN Get(req, "from") = raw["from"]
  ELSE Truthy(senderEmailAddress) => Get(req, "from") = senderEmailAddress

\* C2: in send-email and in every entry of send-batch-emails, the sender handed
\* to the gateway is the invocation's `from` when it supplies one (never the
\* default), and the configured default when it omits `from`.
C2_SenderResolution ==
  \A i \in Slots :
    Issued(i) =>
      /\ tool[i] = "send-email" => SenderAsClaimed(rawArgs[i], Request(i).v)
      /\ tool[i] = "send-batch-emails" =>
           \A k \in 1..Len(RawEmails(i)) :
             SenderAsClaimed(RawEmails(i)[k].v, Request(i).v[k].v)

OmitsFrom(i) ==
  \/ tool[i] = "send-email" /\ "from" \notin DOMAIN rawArgs[i]
  \/ /\ tool[i] = "send-batch-emails"
     /\ \E k \in 1..Len(RawEmails(i)) : "from" \notin DOMAIN RawEmails(i)[k].v

\* C3: with no default sender configured, a send-email invocation, or a
\* send-batch-emails invocation with an entry, that omits `from` is rejected, so
\* no request without a sender is passed to the gateway.
C3_MissingSenderRejected ==
  ~Truthy(senderEmailAddress) =>
    \A i \in Slots :
      /\ (Active(i) /\ OmitsFrom(i)) => RejectedUnsent(i)
      /\ (Issued(i) /\ tool[i] = "send-email") => Get(Request(i).v, "from").t = "string"
      /\ (Issued(i) /\ tool[i] = "send-batch-emails") =>
           \A k \in 1..Len(Request(i).v) : Get(Request(i).v[k].v, "from").t = "string"

NonEmptyRecipients(v) == v.t = "string" \/ (v.t = "array" /\ Len(v.v) > 0)

\* C4: in send-email, with no reply-to address configured the outgoing request
\* carries the invocation's replyTo (no replyTo field when it is omitted or
\* empty), and an invocation without replyTo is accepted; with one or more
\* configured the outgoing replyTo is the configured list, whatever the raw
\* arguments contain.
C4_ReplyToResolution ==
  \A i \in Slots :
    (Issued(i) /\ tool[i] = "send-email") =>
      IF Len(replierEmailAddresses.v) = 0
      THEN IF "replyTo" \in DOMAIN rawArgs[i] /\ NonEmptyRecipients(rawArgs[i]["replyTo"])
           THEN Get(Request(i).v, "replyTo") = rawArgs[i]["replyTo"]
           ELSE "replyTo" \notin DOMAIN Request(i).v
      ELSE Get(Request(i).v, "replyTo") = replierEmailAddresses

\* C4 witness: reply-to addresses are configured, the invocation carries a
\* replyTo of its own, and the request issued carries the configured list.
C4_Witness ==
  \E i \in Slots :
    /\ Issued(i) /\ tool[i] = "send-email"
    /\ Len(replierEmailAddresses.v) > 0
    /\ "replyTo" \in DOMAIN rawArgs[i]
    /\ rawArgs[i]["replyTo"] # replierEmailAddresses
    /\ Get(Request(i).v, "replyTo") = replierEmailAddresses

\* C5: send-batch-emails accepts the emails list exactly when its length is
\* between 1 and 100: a list of 0 or of 101 entries is rejected without a
\* gateway call, and a list of 100 valid entries is accepted.
C5_BatchLength ==
  \A i \in Slots :
    (Active(i) /\ tool[i] = "send-batch-emails") =>
      LET n == Len(RawEmails(i))
      IN /\ (n = 0 \/ n > MaxBatch) => RejectedUnsent(i)
         /\ (n = MaxBatch /\ \A k \in 1..n : ValidEntry(RawEmails(i)[k])) => Issued(i)

TagBroken(tg) ==
  \E f \in {"name", "value"} :
    ~IsAscii(tg.v[f].v) \/ Len(tg.v[f].v) > MaxTagLen

BrokenTags(raw) ==
  "tags" \in DOMAIN raw /\ \E j \in 1..Len(raw["tags"].v) : TagBroken(raw["tags"].v[j])

\* C6: a send-email invocation, or a send-batch-emails entry, with a tag whose
\* name or value holds a non-ASCII character or more than 256 characters is
\* rejected before any gateway call.
C6_TagFormat ==
  \A i \in Slots :
    /\ (Active(i) /\ tool[i] = "send-email" /\ BrokenTags(rawArgs[i]))
         => RejectedUnsent(i)
    /\ (Active(i) /\ tool[i] = "send-batch-emails"
        /\ \E k \in 1..Len(RawEmails(i)) : BrokenTags(RawEmails(i)[k].v))
         => RejectedUnsent(i)

BrokenRecipients(raw) ==
  \E f \in RecipientFields :
    /\ f \in DOMAIN raw
    /\ \/ raw[f].t = "string" /\ ~IsEmail(raw[f].v)
       \/ raw[f].t = "array" /\ Len(raw[f].v) = 0
       \/ raw[f].t = "array" /\ \E j \in 1..Len(raw[f].v) : ~IsEmail(raw[f].v[j].v)

\* C7: in send-email and in every send-batch-emails entry, a recipient field
\* (to, cc, bcc, replyTo) that is a malformed address, an empty list, or a list
\* with a malformed element at any position makes the invocation rejected.
C7_RecipientLists ==
  \A i \in Slots :
    /\ (Active(i) /\ tool[i] = "send-email" /\ BrokenRecipients(rawArgs[i]))
         => RejectedUnsent(i)
    /\ (Active(i) /\ tool[i] = "send-batch-emails"
        /\ \E k \in 1..Len(RawEmails(i)) : BrokenRecipients(RawEmails(i)[k].v))
         => RejectedUnsent(i)

NoUndefinedKey(v) == v.t = "object" => \A k \in DOMAIN v.v : v.v[k].t # "undefined"

\* C8: no request object handed to the gateway (and no entry of a batch
\* request) has a key whose value is undefined: an optional field the
\* invocation omitted is not a key of the outgoing request.
C8_OnlyProvidedFields ==
  \A i \in Slots :
    Issued(i) =>
      \A n \in 1..Len(calls[i][1].args) :
        LET arg == calls[i][1].args[n]
        IN /\ NoUndefinedKey(arg)
           /\ arg.t = "array" => \A k \in 1..Len(arg.v) : NoUndefinedKey(arg.v[k])

Failed(i) == pc[i] = "done" /\ response[i] # Null /\ response[i].error # Null

InText(text, part) == \E n \in 1..Len(text) : text[n] = part

\* C9: whenever the gateway call of any tool returned a structured failure, the
\* result is a tool-level failure whose message holds the serialized payload of
\* that failure, and of no other one.
C9_FailureSurfaced ==
  \A i \in Slots :
    Failed(i) =>
      /\ result[i].isError
      /\ InText(result[i].text, JSONstringify(response[i].error))
      /\ \A e \in Failures \ {response[i].error} :
           ~InText(result[i].text, JSONstringify(e))

\* C9 witness: a delete-api-key invocation whose gateway call failed has ended
\* as a failure carrying the payload.
C9_Witness ==
  \E i \in Slots :
    /\ tool[i] = "delete-api-key" /\ Failed(i)
    /\ result[i].isError
    /\ InText(result[i].text, JSONstringify(response[i].error))

\* C10: an invocation issues at most one gateway call; once that call has
\* failed the invocation is over, with the failure as its result and still one
\* call issued.
C10_NoRetry ==
  \A i \in Slots :
    /\ Len(calls[i]) <= 1
    /\ (response[i] # Null /\ response[i].error # Null) =>
         /\ pc[i] = "done" /\ result[i].isError
         /\ Len(calls[i]) = 1

\* C10 witness: a send-broadcast invocation whose only gateway call failed.
C10_Witness ==
  \E i \in Slots :
    /\ tool[i] = "send-broadcast" /\ Failed(i)
    /\ Len(calls[i]) = 1 /\ result[i].isError

Succeeded(i) == pc[i] = "done" /\ response[i] # Null /\ response[i].error = Null

\* The ids of entries lo..hi of a batch response, in order, separated by ", ".
RECURSIVE IdsListed(_, _, _)
IdsListed(list, lo, hi) ==
  IF lo = hi THEN list[lo].v["id"].v
  ELSE LET mid == (lo + hi) \div 2
       IN IdsListed(list, lo, mid) \o ", " \o IdsListed(list, mid + 1, hi)

\* C11: a successful send-batch-emails of n entries (1 <= n <= 100) got n
\* identifiers from the gateway, the k-th one for the k-th entry, and its text
\* lists exactly these n identifiers in that order.
C11_BatchIdsInOrder ==
  \A i \in Slots :
    (Succeeded(i) /\ tool[i] = "send-batch-emails" /\ Len(RawEmails(i)) >= 1) =>
      LET n == Len(RawEmails(i))
          created == response[i].data.v["data"].v
      IN /\ Len(created) = n
         /\ \A k \in 1..n : created[k].v["id"].v = "em_" \o ToString(k)
         /\ ~result[i].isError
         /\ result[i].text =
              <<"Batch emails sent successfully! IDs: ", IdsListed(created, 1, n)>>

\* C11 witness: a batch of 100 entries has succeeded and its text is rendered.
C11_Witness ==
  \E i \in Slots :
    /\ Succeeded(i) /\ tool[i] = "send-batch-emails"
    /\ Len(RawEmails(i)) = MaxBatch
    /\ Len(result[i].text) = 2

\* The one-time secret of a create-api-key response, "" when it carries none.
TokenOf(resp) == IF resp.data.t = "object" /\ "token" \in DOMAIN resp.data.v
                 THEN resp.data.v["token"].v ELSE ""

\* C12: a successful create-api-key shows the token the gateway returned and
\* the warning that it will not be shown again; a failed one is a failure
\* result in which the token does not appear.
C12_TokenShownOnce ==
  \A i \in Slots :
    (pc[i] = "done" /\ tool[i] = "create-api-key" /\ response[i] # Null) =>
      IF response[i].error = Null
      THEN /\ TokenOf(response[i]) = "re_secret"
           /\ ~result[i].isError
           /\ InText(result[i].text, TokenOf(response[i]))
           /\ InText(result[i].text,
                     "\n\nIMPORTANT: Save this token securely, it won't be shown again!")
      ELSE /\ result[i].isError
           /\ ~InText(result[i].text, "re_secret")
           /\ \A n \in 1..Len(result[i].text) : result[i].text[n] # "\nToken: "

\* C12 witness: one create-api-key has succeeded and shows its token.
C12_Witness ==
  \E i \in Slots :
    /\ Succeeded(i) /\ tool[i] = "create-api-key"
    /\ InText(result[i].text, "re_secret")

\* C12 second case: a create-api-key has failed at the gateway.
C12_FailureReached ==
  \E i \in Slots : Failed(i) /\ tool[i] = "create-api-key" /\ result[i].isError

\* The create, update, cancel, verify, send and delete tools whose success is
\* a confirmation (create-api-key has its own rule, the batch has many ids).
ConfirmingTools ==
  {"send-email", "update-email", "cancel-email", "create-domain", "update-domain",
   "delete-domain", "verify-domain", "delete-api-key", "create-audience",
   "delete-audience", "create-contact", "update-contact", "delete-contact",
   "create-broadcast", "send-broadcast", "delete-broadcast"}

\* The identifier a success payload carries: its id, or the contact a removal
\* names; "" when it carries none.
CarriedId(data) ==
  IF data.t # "object" THEN ""
  ELSE IF OptGet(data, "id").t = "string" THEN data.v["id"].v
  ELSE IF OptGet(data, "contact").t = "string" THEN data.v["contact"].v
  ELSE ""

\* C13: for every create, update, cancel, verify, send and delete tool, a
\* successful response that carries an identifier is rendered as one line,
\* the confirmation followed by that identifier and nothing else.
C13_OneLineConfirmation ==
  \A i \in Slots :
    (Succeeded(i) /\ tool[i] \in ConfirmingTools
       /\ CarriedId(response[i].data) # "") =>
      /\ ~result[i].isError
      /\ Len(result[i].text) = 2
      /\ result[i].text[2] = CarriedId(response[i].data)

\* C13 restricted to the tools that do follow the rule: all but create-domain
\* and delete-contact.
C13_OthersConfirmInOneLine ==
  \A i \in Slots :
    (Succeeded(i) /\ tool[i] \in ConfirmingTools \ {"create-domain", "delete-contact"}
       /\ CarriedId(response[i].data) # "") =>
      /\ Len(result[i].text) = 2
      /\ result[i].text[2] = CarriedId(response[i].data)

\* Neither --key nor RESEND_API_KEY is given.
NoCredential == cmdline.key = <<>> /\ env.RESEND_API_KEY = <<>>

\* Without a credential nothing is registered, served or sent, and an ended
\* process has written the diagnostic and has a non-zero exit status.
NoCredentialNothingServed ==
  NoCredential =>
    /\ phase \in {"starting", "exited"}
    /\ registered = {}
    /\ \A i \in Slots : pc[i] = "idle" /\ calls[i] = <<>> /\ result[i] = Null
    /\ phase = "starting" => exitCode = -1 /\ stderr = <<>>
    /\ phase = "exited" =>
         /\ exitCode > 0
         /\ stderr = <<"No API key provided. Please set RESEND_API_KEY environment variable or use --key argument">>

\* C14: when no credential is available at startup the process terminates with
\* a non-zero exit status after the diagnostic message, and in that run no tool
\* is ever registered or served and no gateway call is ever issued.
C14_NoCredentialIsFatal ==
  /\ []NoCredentialNothingServed
  /\ (NoCredential /\ phase = "starting") ~> (phase = "exited" /\ exitCode > 0)

\* C14 witness: a process started without a credential has ended with status 1.
C14_Witness == NoCredential /\ phase = "exited" /\ exitCode = 1 /\ Len(stderr) = 1

\* The addresses of a comma-separated value, one element per address.
Addresses(toks) ==
  LET parts == Split(toks) IN [n \in 1..Len(parts) |-> Str(Text(parts[n]))]

\* The addresses of every occurrence of a flag, in order.
RECURSIVE AddressesOfAll(_)
AddressesOfAll(occurrences) ==
  IF Len(occurrences) = 0 THEN <<>>
  ELSE Addresses(Head(occurrences)) \o AddressesOfAll(Tail(occurrences))

\* --reply-to is given with a value at least once.
ReplyToFlagGiven == \E n \in 1..Len(cmdline.replyTo) : Len(cmdline.replyTo[n]) > 0

\* C15: the default reply-to list holds one element per address, whether the
\* addresses come comma-separated from --reply-to or from
\* REPLY_TO_EMAIL_ADDRESSES, and the flag's value takes precedence.
C15_ReplyToDefaultList ==
  phase # "starting" =>
    replierEmailAddresses =
      Arr(IF ReplyToFlagGiven THEN AddressesOfAll(cmdline.replyTo)
          ELSE IF Len(env.REPLY_TO_EMAIL_ADDRESSES) > 0
               THEN Addresses(env.REPLY_TO_EMAIL_ADDRESSES)
               ELSE <<>>)

\* C15 for the environment variable alone: its value is split per address.
C15_EnvIsSplit ==
  (phase # "starting" /\ cmdline.replyTo = <<>>
     /\ Len(env.REPLY_TO_EMAIL_ADDRESSES) > 0) =>
    replierEmailAddresses = Arr(Addresses(env.REPLY_TO_EMAIL_ADDRESSES))

\* C15 for precedence: with a flag value given, the environment variable has
\* no part in the list.
C15_FlagPrecedence ==
  (phase # "starting" /\ ReplyToFlagGiven) =>
    \A n \in 1..Len(replierEmailAddresses.v) :
      replierEmailAddresses.v[n].v \notin {"e1@corp.com", "e2@corp.com"}

GetTools == {"get-email", "get-domain", "get-audience", "get-contact", "get-broadcast"}
ListTools == {"list-domains", "list-api-keys", "list-audiences", "list-contacts",
              "list-broadcasts"}

\* C16: for every get and list tool a successful result is the gateway's whole
\* success payload in indented form, with nothing dropped, and the five list
\* tools follow the same rule.
C16_FullPayloadRendered ==
  \A i \in Slots :
    (Succeeded(i) /\ tool[i] \in GetTools \cup ListTools) =>
      /\ ~result[i].isError
      /\ result[i].text = <<JSONindent(response[i].data, 0)>>

\* C16 restricted to the tools that render the whole payload: the get tools
\* and list-api-keys.
C16_WholePayloadTools ==
  \A i \in Slots :
    (Succeeded(i) /\ tool[i] \in GetTools \cup {"list-api-keys"}) =>
      result[i].text = <<JSONindent(response[i].data, 0)>>

\* What the other four list tools render: the payload's inner list only.
C16_InnerListTools ==
  \A i \in Slots :
    (Succeeded(i) /\ tool[i] \in ListTools \ {"list-api-keys"}) =>
      /\ result[i].text = <<JSONindent(response[i].data.v["data"], 0)>>
      /\ result[i].text # <<JSONindent(response[i].data, 0)>>

\* The permission an invocation asks for, Undefined when it names none.
AskedPermission(raw) ==
  IF "permission" \in DOMAIN raw /\ raw["permission"].t = "string"
  THEN raw["permission"] ELSE Undefined

\* C18: every create-api-key request sent to the gateway carries a permission,
\* the invocation's own when it gave one and sending_access when it gave none;
\* a full_access key is requested only when the invocation asked for it.
C18_PermissionDefault ==
  \A i \in Slots :
    (tool[i] = "create-api-key" /\ Issued(i)) =>
      LET req == Request(i).v
          asked == AskedPermission(rawArgs[i])
      IN /\ "permission" \in DOMAIN req
         /\ req["permission"].t = "string"
         /\ req["permission"] = IF asked = Undefined THEN Str("sending_access") ELSE asked
         /\ req["permission"] = Str("full_access") => asked = Str("full_access")

\* C18 witness: a create-api-key without a permission has been sent with
\* sending_access.
C18_Witness ==
  \E i \in Slots :
    /\ tool[i] = "create-api-key" /\ Issued(i)
    /\ "permission" \notin DOMAIN rawArgs[i]
    /\ Request(i).v["permission"] = Str("sending_access")

\* C18 second case: a create-api-key that asked for full_access was sent so.
C18_FullAccessAsked ==
  \E i \in Slots :
    /\ tool[i] = "create-api-key" /\ Issued(i)
    /\ AskedPermission(rawArgs[i]) = Str("full_access")
    /\ Request(i).v["permission"] = Str("full_access")

\* The process defaults are the values resolved at startup.
DefaultsAsStarted ==
  /\ apiKey = ResolveApiKey(cmdline, env)
  /\ senderEmailAddress = ResolveSender(cmdline, env)
  /\ replierEmailAddresses = ResolveReplyTo(cmdline, env)

\* Slot i holds what its own arguments, the process defaults and its own
\* gateway response determine, and nothing else.
OwnInputsOnly(i) ==
  LET d == Dispatch(tool[i], rawArgs[i])
  IN IF d.kind = "throw"
     THEN /\ pc[i] = "done" /\ calls[i] = <<>> /\ response[i] = Null
          /\ result[i] = ToResult(d)
     ELSE /\ calls[i] = <<[op |-> d.op, args |-> d.args]>>
          /\ pc[i] = "awaiting" => response[i] = Null /\ result[i] = Null
          /\ pc[i] = "done" =>
               /\ response[i] \in GatewayResponses(calls[i][1])
               /\ result[i] = ToResult(HandlerFinish(tool[i], response[i]))

\* C17: under every interleaving of pipelined invocations the process defaults
\* keep their startup values, and the request built and the result rendered
\* for an invocation are those its own arguments, the defaults and its own
\* gateway response determine, whatever the other invocations are or were.
C17_InvocationsIndependent ==
  phase = "running" =>
    /\ DefaultsAsStarted
    /\ \A i \in Slots : Active(i) => OwnInputsOnly(i)

\* C17 witness: two invocations are suspended at their gateway calls together,
\* a send-email that took the default sender and a batch.
C17_Witness ==
  \E i, j \in Slots :
    /\ pc[i] = "awaiting" /\ pc[j] = "awaiting"
    /\ tool[i] = "send-email" /\ "from" \notin DOMAIN rawArgs[i]
    /\ Request(i).v["from"] = senderEmailAddress
    /\ tool[j] = "send-batch-emails"

\* C17 second case: of two overlapping invocations one has finished with its
\* own response while the other is still suspended.
C17_OneFinishedFirst ==
  \E i, j \in Slots :
    /\ pc[i] = "done" /\ response[i] # Null /\ Truthy(response[i].error)
    /\ pc[j] = "awaiting"
    /\ tool[i] = "create-api-key" /\ tool[j] = "send-email"

====
